---------------------------- MODULE Spec2Model ----------------------------
(***************************************************************************)
(* File transfer benchmark harness: the two servers                        *)
(* (server_processpool.py, server_threadpool.py) and the client            *)
(* (client_pool.py).                                                       *)
(*                                                                         *)
(* Wire data is a sequence of symbols (naturals):                          *)
(*   0..63   the base64 alphabet, in alphabet order (A-Z a-z 0-9 + /)      *)
(*   64      '=' (base64 padding)                                          *)
(*   65      '_' (not a base64 character)                                  *)
(*   >= 100  one whole fixed text of the protocol (Text), or a file name   *)
(*           inside a text (NameSym)                                       *)
(***************************************************************************)
EXTENDS Naturals, Sequences, FiniteSets, TLC

(***************************************************************************)
(* Program constants.  All three are 1048576 in the source; the model      *)
(* scales them to 13, the smallest value that keeps 1048576 % 3 = 1 (what  *)
(* the chunk-wise base64 encoding depends on) and still holds the longest  *)
(* sentinel (12 symbols) in one read.                                      *)
(***************************************************************************)
CHUNK_SIZE == 13

DATA_CHUNK == 13

TRANSFER_BLOCK == 13

(***************************************************************************)
(* Bounds of the model.                                                    *)
(***************************************************************************)
MaxFileLen == 14

MaxWorkers == 2

MaxConns == 2

---------------------------------------------------------------------------
(* Symbols *)

PAD == 64

USCORE == 65

\* b'__EOF__' : E = 4, O = 14, F = 5
EOF_SENTINEL == <<65, 65, 4, 14, 5, 65, 65>>

\* b'__COMPLETE__' : C = 2, O = 14, M = 12, P = 15, L = 11, E = 4, T = 19
COMPLETE_SENTINEL == <<65, 65, 2, 14, 12, 15, 11, 4, 19, 4, 65, 65>>

\* The fixed texts of the protocol, each one symbol.
Text(t) ==
  CASE t = "PROCEED" -> 101
    [] t = "READY_FOR_DATA" -> 102
    [] t = "File stored successfully" -> 103
    [] t = "File unavailable" -> 104
    [] t = "Missing filename" -> 105
    [] t = "Filename required" -> 106
    [] t = "Unknown operation" -> 107
    [] t = "Unrecognized command" -> 108
    [] t = "Invalid request" -> 109
    [] t = "Invalid request format" -> 110
    [] t = "Empty directory" -> 111
    [] t = "Directory empty" -> 112
    [] t = "Invalid operation" -> 113
    [] t = "Temp file missing: " -> 114
    [] t = "Operation failed: " -> 115
    [] t = "Storage error: " -> 116
    [] t = "Retrieval error: " -> 117
    [] t = "Error: " -> 118
    [] t = "\n" -> 119

---------------------------------------------------------------------------
(* Transfer codec *)

\* bytes in bytes: a occurs in s as a contiguous run (Python's `a in s`)
Contains(s, a) ==
  \E i \in 1..(Len(s) + 1) :
     /\ i + Len(a) - 1 <= Len(s)
     /\ \A j \in 1..Len(a) : s[i + j - 1] = a[j]

\* bytes.replace(a, b''): every non-overlapping occurrence of a, scanning
\* from the left, is removed
RECURSIVE Replace(_, _)
Replace(s, a) ==
  IF Len(s) < Len(a) \/ Len(a) = 0 THEN s
  ELSE IF SubSeq(s, 1, Len(a)) = a
       THEN Replace(SubSeq(s, Len(a) + 1, Len(s)), a)
       ELSE <<s[1]>> \o Replace(Tail(s), a)

\* base64.b64encode
RECURSIVE B64Encode(_)
B64Encode(b) ==
  IF Len(b) = 0 THEN <<>>
  ELSE IF Len(b) = 1
       THEN <<b[1] \div 4, (b[1] % 4) * 16, PAD, PAD>>
  ELSE IF Len(b) = 2
       THEN <<b[1] \div 4, (b[1] % 4) * 16 + (b[2] \div 16),
              (b[2] % 16) * 4, PAD>>
  ELSE <<b[1] \div 4, (b[1] % 4) * 16 + (b[2] \div 16),
         (b[2] % 16) * 4 + (b[3] \div 64), b[3] % 64>>
       \o B64Encode(SubSeq(b, 4, Len(b)))

\* base64.b64decode(s) with validate=False, i.e. binascii.a2b_base64 in its
\* non-strict mode: characters outside the alphabet are skipped, a complete
\* run of padding ends the decoding (what follows it is dropped), and a
\* quad left open at the end raises binascii.Error.
\* Result: [ok |-> BOOLEAN, data |-> bytes]
RECURSIVE A2B(_, _, _, _, _, _)
A2B(s, i, quad_pos, leftchar, pads, out) ==
  IF i > Len(s)
  THEN IF quad_pos # 0 THEN [ok |-> FALSE, data |-> <<>>]
       ELSE [ok |-> TRUE, data |-> out]
  ELSE IF s[i] = PAD
       THEN IF quad_pos >= 2 /\ quad_pos + pads + 1 >= 4
            THEN [ok |-> TRUE, data |-> out]
            ELSE A2B(s, i + 1, quad_pos, leftchar,
                     IF quad_pos >= 2 THEN pads + 1 ELSE pads, out)
  ELSE IF s[i] > PAD
       THEN A2B(s, i + 1, quad_pos, leftchar, pads, out)
  ELSE IF quad_pos = 0
       THEN A2B(s, i + 1, 1, s[i], 0, out)
  ELSE IF quad_pos = 1
       THEN A2B(s, i + 1, 2, s[i] % 16, 0,
                Append(out, leftchar * 4 + (s[i] \div 16)))
  ELSE IF quad_pos = 2
       THEN A2B(s, i + 1, 3, s[i] % 4, 0,
                Append(out, leftchar * 16 + (s[i] \div 4)))
  ELSE A2B(s, i + 1, 0, 0, 0, Append(out, leftchar * 64 + s[i]))

B64Decode(s) == A2B(s, 1, 0, 0, 0, <<>>)


\* bytes.lower() on wire symbols: A-Z (0..25) become a-z (26..51)
Lower(s) == [i \in 1..Len(s) |-> IF s[i] < 26 THEN s[i] + 26 ELSE s[i]]

\* b'success' and b'unavailable' as symbols (lower-case letters)
WORD_SUCCESS == <<44, 46, 28, 28, 30, 44, 44>>

WORD_UNAVAILABLE == <<46, 39, 26, 47, 26, 34, 37, 26, 27, 37, 30>>

\* `word in response.lower()`: the word occurs in one of the fixed texts of
\* the response, in a file name inside it (203 is the name "success"), or
\* in its base64 characters
HasWord(response, word) ==
  \/ /\ word = WORD_SUCCESS
     /\ \E i \in 1..Len(response) : response[i] = Text("File stored successfully")
  \/ /\ word = WORD_UNAVAILABLE
     /\ \E i \in 1..Len(response) : response[i] = Text("File unavailable")
  \/ /\ word = WORD_SUCCESS
     /\ \E i \in 1..Len(response) : response[i] = 203
  \/ Contains(Lower(response), word)

\* str.upper() on the command word
Upper(w) ==
  CASE w = "list" -> "LIST"
    [] w = "upload" -> "UPLOAD"
    [] w = "download" -> "DOWNLOAD"
    [] w = "store" -> "STORE"
    [] w = "fetch" -> "FETCH"
    [] w = "directory" -> "DIRECTORY"
    [] OTHER -> w

Min(a, b) == IF a < b THEN a ELSE b

---------------------------------------------------------------------------
(* State *)

Conns == 1..MaxConns

Names == {"a", "b"}

\* the name symbol of a file name inside a text (LIST's reply)
NameSym(n) ==
  CASE n = "a" -> 201
    [] n = "b" -> 202
    [] n = "success" -> 203
    [] n = "u1.tmp" -> 211
    [] n = "u2.tmp" -> 212
    [] n = "u3.tmp" -> 213
    [] OTHER -> 299

\* f"{filename}_{uuid.uuid4()}.tmp": one fresh name per upload
TempName(c) ==
  CASE c = 1 -> "u1.tmp"
    [] c = 2 -> "u2.tmp"
    [] OTHER -> "u3.tmp"

VARIABLES
  variant,               \* "process": server_processpool.py, "thread": server_threadpool.py
  worker_count,          \* the pool size given on the command line
  storage,               \* STORAGE_DIR: file name -> content
  denied,                \* names in STORAGE_DIR that open() raises on
  completed_operations,  \* completed_operations / successful_ops
  failed_operations,     \* failed_operations / failed_ops
  workq,                 \* the executor's queue of submitted work items
  busy,                  \* connections whose work item holds a pool worker
  hpc,                   \* the handler's position
  h,                     \* the handler's locals
  trace,                 \* per handler: increments made, exception seen,
                         \* the counter it is about to increment
  stats_lock,            \* stats_lock / counter_lock: 0, or its holder
  printed,               \* the pair the reporter printed last
  req,                   \* the first line in flight
  c2s,                   \* unread payload symbols, peer to server
  c2sLog,                \* every payload symbol the peer has sent
  s2c,                   \* every symbol the server has sent
  peerState,             \* "none", "open", "fin" (closed), "rst" (reset)
  peer,                  \* the peer's script
  after,                 \* the connection the load driver runs this one after
  cl,                    \* the peer's locals
  downloads              \* RECEIVED_FOLDER: file name -> content

srvVars == <<variant, worker_count, storage, denied, completed_operations,
             failed_operations, workq, busy, hpc, h, trace, stats_lock,
             printed>>

netVars == <<req, c2s, c2sLog, s2c, peerState>>

peerVars == <<peer, after, cl, downloads>>

vars == <<srvVars, netVars, peerVars>>

---------------------------------------------------------------------------
(* What both handlers share: sending, counting, closing *)

conf == <<variant, worker_count, denied, stats_lock, printed>>

cnt == <<completed_operations, failed_operations, trace>>

H0 == [op |-> "", filename |-> "", received_data |-> <<>>,
       response |-> <<>>, pos |-> 0]

T0 == [completed |-> 0, failed |-> 0, raised |-> FALSE, which |-> "none",
       loaded |-> 0]

\* a send on a socket whose peer is gone may raise; on an open one it does not
MayRaise(c) == peerState[c] # "open"

\* the handler has sent `out` and comes to `with stats_lock: <which> += 1`
Finish(c, out, which, raised) ==
  /\ s2c' = [s2c EXCEPT ![c] = out]
  /\ trace' = [trace EXCEPT ![c].which = which,
                            ![c].raised = @ \/ raised]
  /\ hpc' = [hpc EXCEPT ![c] = "COUNT"]
  /\ UNCHANGED <<completed_operations, failed_operations, busy>>

\* ExceptExit without its `failed += 1`: the except clause only answers
ExceptExit_uncounted(c, sofar) ==
  /\ \E out \in {sofar \o <<Text("Error: ")>>}
                \cup (IF MayRaise(c) THEN {sofar} ELSE {}) :
        s2c' = [s2c EXCEPT ![c] = out]
  /\ trace' = [trace EXCEPT ![c].raised = TRUE]
  /\ hpc' = [hpc EXCEPT ![c] = "CLOSED"]
  /\ busy' = IF variant = "thread" THEN busy \ {c} ELSE busy
  /\ UNCHANGED <<completed_operations, failed_operations>>

\* except Exception as error: try: connection.send(f'Error: {error}')
\* except: pass; failed += 1.  `sofar` is what the handler had sent.
ExceptExit(c, sofar) ==
  \E out \in {sofar \o <<Text("Error: ")>>}
             \cup (IF MayRaise(c) THEN {sofar} ELSE {}) :
     Finish(c, out, "failed", TRUE)

\* ReplyAndCount without its send: the handler counts and closes in silence
ReplyAndCount_silent(c, msg, which) ==
  \/ Finish(c, s2c[c], which, FALSE)
  \/ /\ MayRaise(c)
     /\ ExceptExit(c, s2c[c])

\* connection.send(msg); with lock: <which> += 1; return
\* -- or the send raises and the handler's except clause runs
ReplyAndCount(c, msg, which) ==
  \/ Finish(c, s2c[c] \o msg, which, FALSE)
  \/ /\ MayRaise(c)
     /\ ExceptExit(c, s2c[c])

\* nothing is readable and the peer is still there: recv blocks, and raises
\* socket.timeout after the idle timeout; a reset connection raises at once
RecvRaises(c, pending) ==
  \/ peerState[c] = "open" /\ pending = 0
  \/ peerState[c] = "rst"

\* JoinNames without its separator: ''.join(files)
RECURSIVE JoinNames_unseparated(_)
JoinNames_unseparated(order) ==
  IF Len(order) = 0 THEN <<>>
  ELSE <<NameSym(order[1])>> \o JoinNames_unseparated(Tail(order))

\* '\n'.join(files) for os.listdir's files in the order `order`
RECURSIVE JoinNames(_)
JoinNames(order) ==
  IF Len(order) = 0 THEN <<>>
  ELSE IF Len(order) = 1 THEN <<NameSym(order[1])>>
  ELSE <<NameSym(order[1]), Text("\n")>> \o JoinNames(Tail(order))

\* the orders os.listdir may return the directory in
Listings(dir) ==
  {o \in [1..Cardinality(dir) -> dir] :
     \A i, j \in 1..Cardinality(dir) : i # j => o[i] # o[j]}

\* `with stats_lock:` without the lock: the block is entered at once
Acquire_unlocked(c) == stats_lock' = c

\* `with stats_lock:` / `with counter_lock:`: wait for the lock, take it
Acquire(c) ==
  /\ stats_lock = 0
  /\ stats_lock' = c

\* `<counter> += 1`, first half: the lock is taken and the counter is read
counter_load(c) ==
  /\ hpc[c] = "COUNT"
  /\ Acquire(c)
  /\ trace' = [trace EXCEPT ![c].loaded =
                  IF trace[c].which = "completed" THEN completed_operations
                  ELSE failed_operations]
  /\ hpc' = [hpc EXCEPT ![c] = "LOCKED"]
  /\ UNCHANGED <<variant, worker_count, denied, printed, storage,
                 completed_operations, failed_operations, workq, busy, h,
                 netVars, peerVars>>

\* `<counter> += 1`, second half: the sum is stored and the lock released;
\* then `finally: connection.close()`, and a thread-pool handler gives its
\* worker back
counter_store(c) ==
  /\ hpc[c] = "LOCKED"
  /\ completed_operations' =
       IF trace[c].which = "completed" THEN trace[c].loaded + 1
       ELSE completed_operations
  /\ failed_operations' =
       IF trace[c].which = "failed" THEN trace[c].loaded + 1
       ELSE failed_operations
  /\ trace' = [trace EXCEPT
       ![c].completed = @ + (IF trace[c].which = "completed" THEN 1 ELSE 0),
       ![c].failed = @ + (IF trace[c].which = "failed" THEN 1 ELSE 0)]
  /\ stats_lock' = 0
  /\ hpc' = [hpc EXCEPT ![c] = "CLOSED"]
  /\ busy' = IF variant = "thread" THEN busy \ {c} ELSE busy
  /\ UNCHANGED <<variant, worker_count, denied, printed, storage, workq, h,
                 netVars,
                 peerVars>>

\* display_stats / monitor_performance: every ten seconds the pair of
\* counters is read under the lock and printed
display_stats ==
  /\ stats_lock = 0
  /\ printed' = <<completed_operations, failed_operations>>
  /\ UNCHANGED <<variant, worker_count, denied, stats_lock, storage,
                 completed_operations, failed_operations, workq, busy, hpc,
                 h, trace, netVars, peerVars>>

---------------------------------------------------------------------------
(* server_processpool.py *)

\* execute_command(command, parameters), run by a pool worker: the new
\* storage and the bytes returned.  op is the handler's operation, whose
\* command is LIST_FILES, STORE_FILE or RETRIEVE_FILE.
execute_command(op, filename, temp_path, dir, order, unopenable) ==
  IF op = "LIST"
  THEN [storage |-> dir,
        response |-> IF DOMAIN dir = {} THEN <<Text("Empty directory")>>
                     ELSE JoinNames(order)]
  ELSE IF op = "UPLOAD"
  THEN IF temp_path \notin DOMAIN dir
       THEN [storage |-> dir,
             response |-> <<Text("Temp file missing: "), NameSym(temp_path)>>]
       ELSE LET dec == B64Decode(dir[temp_path])
            IN IF dec.ok /\ filename \in unopenable
               THEN \* open(destination, 'wb') raises; str(error) names it
                    [storage |-> dir,
                     response |-> <<Text("Operation failed: "),
                                    NameSym(filename)>>]
               ELSE IF dec.ok
               THEN [storage |->
                       [n \in ((DOMAIN dir) \cup {filename}) \ {temp_path} |->
                          IF n = filename THEN dec.data ELSE dir[n]],
                     response |-> <<Text("File stored successfully")>>]
               ELSE [storage |-> dir,
                     response |-> <<Text("Operation failed: ")>>]
  ELSE IF op = "DOWNLOAD"
  THEN IF filename \notin DOMAIN dir
       THEN [storage |-> dir, response |-> <<Text("File unavailable")>>]
       ELSE IF filename \in unopenable
       THEN \* open(file_path, 'rb') raises; str(error) names the path
            [storage |-> dir,
             response |-> <<Text("Operation failed: "), NameSym(filename)>>]
       ELSE [storage |-> dir,
             response |-> B64Encode(dir[filename]) \o EOF_SENTINEL]
  ELSE [storage |-> dir, response |-> <<Text("Invalid operation")>>]

\* executor.submit(execute_command, ...); the handler then blocks in
\* task.result()
Submit(c) ==
  /\ workq' = Append(workq, c)
  /\ hpc' = [hpc EXCEPT ![c] = "SUBMITTED"]


\* lines 84-117, 138-146, 159-162: the first line is received, parsed and
\* dispatched
manage_connection_request(c) ==
  /\ variant = "process"
  /\ hpc[c] = "INIT"
  /\ UNCHANGED <<conf, c2s, c2sLog, peerState, peerVars>>
  /\ \/ \* recv raises: timeout, or connection reset
        /\ ~req[c].pending
        /\ RecvRaises(c, 0)
        /\ ExceptExit(c, s2c[c])
        /\ UNCHANGED <<storage, workq, h, req>>
     \/ \* request == '' after strip(): peer closed, or a blank line
        /\ \/ ~req[c].pending /\ peerState[c] = "fin"
           \/ req[c].pending /\ req[c].words = <<>>
        /\ req' = [req EXCEPT ![c].pending = FALSE]
        /\ Finish(c, s2c[c], "failed", FALSE)
        /\ UNCHANGED <<storage, workq, h>>
     \/ /\ req[c].pending
        /\ req[c].words # <<>>
        /\ req' = [req EXCEPT ![c].pending = FALSE]
        /\ LET parts == req[c].words
               operation == Upper(parts[1])
           IN IF operation = "LIST"
              THEN /\ Submit(c)
                   /\ h' = [h EXCEPT ![c].op = "LIST"]
                   /\ UNCHANGED <<storage, s2c, cnt, busy>>
              ELSE IF operation \in {"UPLOAD", "DOWNLOAD"} /\ Len(parts) < 2
              THEN /\ ReplyAndCount(c, <<Text("Missing filename")>>, "failed")
                   /\ UNCHANGED <<storage, workq, h>>
              ELSE IF operation = "UPLOAD"
              THEN \/ \* connection.send(b'PROCEED'); open(temp_path, 'wb')
                      /\ s2c' = [s2c EXCEPT ![c] = @ \o <<Text("PROCEED")>>]
                      /\ storage' =
                           [n \in (DOMAIN storage) \cup {TempName(c)} |->
                              IF n = TempName(c) THEN <<>> ELSE storage[n]]
                      /\ h' = [h EXCEPT ![c].op = "UPLOAD",
                                        ![c].filename = parts[2]]
                      /\ hpc' = [hpc EXCEPT ![c] = "RECEIVE_CHUNKS"]
                      /\ UNCHANGED <<workq, cnt, busy>>
                   \/ /\ MayRaise(c)
                      /\ ExceptExit(c, s2c[c])
                      /\ UNCHANGED <<storage, workq, h>>
              ELSE IF operation = "DOWNLOAD"
              THEN /\ Submit(c)
                   /\ h' = [h EXCEPT ![c].op = "DOWNLOAD",
                                     ![c].filename = parts[2]]
                   /\ UNCHANGED <<storage, s2c, cnt, busy>>
              ELSE /\ ReplyAndCount(c, <<Text("Unknown operation")>>, "failed")
                   /\ UNCHANGED <<storage, workq, h>>

\* lines 119-127: one pass of the upload receive loop
manage_connection_receive(c) ==
  /\ variant = "process"
  /\ hpc[c] = "RECEIVE_CHUNKS"
  /\ UNCHANGED <<conf, req, c2sLog, peerState, peerVars>>
  /\ \/ /\ RecvRaises(c, Len(c2s[c]))
        /\ ExceptExit(c, s2c[c])
        /\ UNCHANGED <<storage, workq, h, c2s>>
     \/ \E k \in 0..Min(CHUNK_SIZE, Len(c2s[c])) :
          \* recv returns b'' only from a closed connection with nothing left
          /\ IF k = 0 THEN Len(c2s[c]) = 0 /\ peerState[c] = "fin" ELSE TRUE
          /\ LET data_chunk == SubSeq(c2s[c], 1, k)
                 temp_path == TempName(c)
             IN /\ c2s' = [c2s EXCEPT ![c] = SubSeq(@, k + 1, Len(@))]
                /\ IF Contains(data_chunk, EOF_SENTINEL)
                   THEN /\ storage' = [storage EXCEPT ![temp_path] =
                               @ \o Replace(data_chunk, EOF_SENTINEL)]
                        /\ Submit(c)
                   ELSE /\ storage' = [storage EXCEPT ![temp_path] =
                               @ \o data_chunk]
                        /\ UNCHANGED <<workq, hpc>>
                /\ UNCHANGED <<h, s2c, cnt, busy>>

\* ProcessPoolExecutor: a free worker takes the oldest submitted call
execute_command_start(c) ==
  /\ variant = "process"
  /\ hpc[c] = "SUBMITTED"
  /\ workq # <<>>
  /\ Head(workq) = c
  /\ Cardinality(busy) < worker_count
  /\ workq' = Tail(workq)
  /\ busy' = busy \cup {c}
  /\ hpc' = [hpc EXCEPT ![c] = "EXECUTING"]
  /\ UNCHANGED <<conf, storage, h, cnt, netVars, peerVars>>

\* the worker runs execute_command and task.result() returns its bytes
execute_command_return(c) ==
  /\ variant = "process"
  /\ hpc[c] = "EXECUTING"
  /\ \E order \in (IF h[c].op = "LIST" THEN Listings(DOMAIN storage)
                   ELSE {<<>>}) :
       LET r == execute_command(h[c].op, h[c].filename, TempName(c),
                                storage, order, denied)
       IN /\ storage' = r.storage
          /\ h' = [h EXCEPT ![c].response = r.response]
  /\ busy' = busy \ {c}
  /\ hpc' = [hpc EXCEPT ![c] = "RESULT"]
  /\ UNCHANGED <<conf, workq, cnt, netVars, peerVars>>

\* Counted without the test for 'unavailable': every download counts as
\* completed
Counted_without_unavailable(op, response) ==
  IF op = "UPLOAD" /\ ~HasWord(response, WORD_SUCCESS) THEN "failed"
  ELSE "completed"

\* which counter the handler increments after sending `response`
\* (lines 103-104, 131-136, 149-157)
Counted(op, response) ==
  IF op = "LIST" THEN "completed"
  ELSE IF op = "UPLOAD"
       THEN IF HasWord(response, WORD_SUCCESS) THEN "completed" ELSE "failed"
  ELSE IF HasWord(response, WORD_UNAVAILABLE) THEN "failed" ELSE "completed"

\* lines 101-104, 128-136, 147-157: the result is sent and counted
manage_connection_result(c) ==
  /\ variant = "process"
  /\ hpc[c] = "RESULT"
  /\ ReplyAndCount(c, h[c].response, Counted(h[c].op, h[c].response))
  /\ UNCHANGED <<conf, storage, workq, h, req, c2s, c2sLog, peerState,
                 peerVars>>

---------------------------------------------------------------------------
(* server_threadpool.py *)

\* ThreadPoolExecutor: a free worker takes the oldest submitted handler
worker_take(c) ==
  /\ variant = "thread"
  /\ hpc[c] = "QUEUED"
  /\ workq # <<>>
  /\ Head(workq) = c
  /\ Cardinality(busy) < worker_count
  /\ workq' = Tail(workq)
  /\ busy' = busy \cup {c}
  /\ hpc' = [hpc EXCEPT ![c] = "INIT"]
  /\ UNCHANGED <<conf, storage, h, cnt, netVars, peerVars>>

\* the inner `except Exception`: send the error text and count a failure;
\* if that send raises too, the outer except clause runs
InnerExcept(c, text, raised) ==
  \/ Finish(c, s2c[c] \o <<Text(text)>>, "failed", raised)
  \/ /\ MayRaise(c)
     /\ ExceptExit(c, s2c[c])

\* lines 34-64, 87-101, 119-122: the first line is received, parsed and
\* dispatched
process_client_request_request(c) ==
  /\ variant = "thread"
  /\ hpc[c] = "INIT"
  /\ UNCHANGED <<conf, storage, workq, c2s, c2sLog, peerState, peerVars>>
  /\ \/ /\ ~req[c].pending
        /\ RecvRaises(c, 0)
        /\ ExceptExit(c, s2c[c])
        /\ UNCHANGED <<h, req>>
     \/ \* request_data == '': the peer closed
        /\ ~req[c].pending
        /\ peerState[c] = "fin"
        /\ Finish(c, s2c[c], "failed", FALSE)
        /\ UNCHANGED <<h, req>>
     \/ /\ req[c].pending
        /\ req' = [req EXCEPT ![c].pending = FALSE]
        /\ LET command_parts == req[c].words
               action == IF command_parts = <<>> THEN ""
                         ELSE Upper(command_parts[1])
           IN IF command_parts = <<>>
              THEN /\ ReplyAndCount(c, <<Text("Invalid request format")>>,
                                    "failed")
                   /\ UNCHANGED h
              ELSE IF action = "DIRECTORY"
              THEN /\ \E order \in Listings(DOMAIN storage) :
                        ReplyAndCount(c,
                          IF DOMAIN storage = {}
                          THEN <<Text("Directory empty")>>
                          ELSE JoinNames(order), "completed")
                   /\ UNCHANGED h
              ELSE IF action \in {"STORE", "FETCH"} /\ Len(command_parts) < 2
              THEN /\ ReplyAndCount(c, <<Text("Filename required")>>, "failed")
                   /\ UNCHANGED h
              ELSE IF action = "STORE"
              THEN \/ /\ s2c' = [s2c EXCEPT ![c] =
                                   @ \o <<Text("READY_FOR_DATA")>>]
                      /\ h' = [h EXCEPT ![c].op = "STORE",
                                        ![c].filename = command_parts[2],
                                        ![c].received_data = <<>>]
                      /\ hpc' = [hpc EXCEPT ![c] = "RECEIVE_CHUNKS"]
                      /\ UNCHANGED <<cnt, busy>>
                   \/ /\ MayRaise(c)
                      /\ ExceptExit(c, s2c[c])
                      /\ UNCHANGED h
              ELSE IF action = "FETCH"
              THEN IF command_parts[2] \notin DOMAIN storage
                   THEN /\ ReplyAndCount(c, <<Text("File unavailable")>>,
                                         "failed")
                        /\ UNCHANGED h
                   ELSE /\ h' = [h EXCEPT ![c].op = "FETCH",
                                          ![c].filename = command_parts[2],
                                          ![c].pos = 0]
                        /\ hpc' = [hpc EXCEPT ![c] = "STREAM_CHUNKS"]
                        /\ UNCHANGED <<s2c, cnt, busy>>
              ELSE /\ ReplyAndCount(c, <<Text("Unrecognized command")>>,
                                    "failed")
                   /\ UNCHANGED h

\* lines 66-72: one pass of the upload receive loop
process_client_request_receive(c) ==
  /\ variant = "thread"
  /\ hpc[c] = "RECEIVE_CHUNKS"
  /\ UNCHANGED <<conf, storage, workq, req, c2sLog, peerState, peerVars>>
  /\ \/ /\ RecvRaises(c, Len(c2s[c]))
        /\ ExceptExit(c, s2c[c])
        /\ UNCHANGED <<h, c2s>>
     \/ \E k \in 0..Min(DATA_CHUNK, Len(c2s[c])) :
          /\ IF k = 0 THEN Len(c2s[c]) = 0 /\ peerState[c] = "fin" ELSE TRUE
          /\ LET data_part == SubSeq(c2s[c], 1, k)
             IN /\ c2s' = [c2s EXCEPT ![c] = SubSeq(@, k + 1, Len(@))]
                /\ IF Contains(data_part, COMPLETE_SENTINEL)
                   THEN /\ h' = [h EXCEPT ![c].received_data =
                               @ \o Replace(data_part, COMPLETE_SENTINEL)]
                        /\ hpc' = [hpc EXCEPT ![c] = "COMMIT"]
                   ELSE /\ h' = [h EXCEPT ![c].received_data = @ \o data_part]
                        /\ UNCHANGED hpc
                /\ UNCHANGED <<s2c, cnt, busy>>

\* lines 74-85: decode, write, answer, count
process_client_request_commit(c) ==
  /\ variant = "thread"
  /\ hpc[c] = "COMMIT"
  /\ UNCHANGED <<conf, workq, h, req, c2s, c2sLog, peerState, peerVars>>
  /\ LET decoded_content == B64Decode(h[c].received_data)
         target_filename == h[c].filename
     IN IF decoded_content.ok /\ target_filename \in denied
        THEN \* open(file_path, 'wb') raises
             /\ UNCHANGED storage
             /\ InnerExcept(c, "Storage error: ", FALSE)
        ELSE IF decoded_content.ok
        THEN /\ storage' = [n \in (DOMAIN storage) \cup {target_filename} |->
                              IF n = target_filename THEN decoded_content.data
                              ELSE storage[n]]
             /\ \/ Finish(c, s2c[c] \o <<Text("File stored successfully")>>,
                          "completed", FALSE)
                \/ /\ MayRaise(c)
                   /\ InnerExcept(c, "Storage error: ", TRUE)
        ELSE /\ UNCHANGED storage
             /\ InnerExcept(c, "Storage error: ", FALSE)

\* lines 103-117: one pass of the download loop: read a chunk, encode it,
\* send it; after the last chunk the sentinel
process_client_request_stream(c) ==
  /\ variant = "thread"
  /\ hpc[c] = "STREAM_CHUNKS"
  /\ UNCHANGED <<conf, storage, workq, req, c2s, c2sLog, peerState, peerVars>>
  /\ LET content == storage[h[c].filename]
         data_chunk == SubSeq(content, h[c].pos + 1,
                              Min(h[c].pos + DATA_CHUNK, Len(content)))
     IN \/ \* open(file_path, 'rb') raises
           /\ h[c].filename \in denied
           /\ InnerExcept(c, "Retrieval error: ", FALSE)
           /\ UNCHANGED h
        \/ /\ h[c].filename \notin denied
           /\ data_chunk # <<>>
           /\ s2c' = [s2c EXCEPT ![c] = @ \o B64Encode(data_chunk)]
           /\ h' = [h EXCEPT ![c].pos = @ + Len(data_chunk)]
           /\ UNCHANGED <<hpc, cnt, busy>>
        \/ /\ h[c].filename \notin denied
           /\ data_chunk = <<>>
           /\ Finish(c, s2c[c] \o COMPLETE_SENTINEL, "completed", FALSE)
           /\ UNCHANGED h
        \/ /\ MayRaise(c)
           /\ InnerExcept(c, "Retrieval error: ", TRUE)
           /\ UNCHANGED h

---------------------------------------------------------------------------
(* Listener *)

\* server.accept() and the hand-over: a thread of its own
\* (server_processpool.py 187-192) or a work item of the pool
\* (server_threadpool.py 155-156)
Accept(c) ==
  /\ hpc[c] = "IDLE"
  /\ peerState[c] # "none"
  /\ IF variant = "process"
     THEN /\ hpc' = [hpc EXCEPT ![c] = "INIT"]
          /\ UNCHANGED workq
     ELSE /\ hpc' = [hpc EXCEPT ![c] = "QUEUED"]
          /\ workq' = Append(workq, c)
  /\ UNCHANGED <<conf, storage, busy, h, cnt, netVars, peerVars>>

---------------------------------------------------------------------------
(* Peers.  A "raw" peer is any program on the other end of the socket: it  *)
(* sends its first line, sends its payload once the server has told it to  *)
(* go ahead, and may close or reset the connection at any time.            *)

C0 == [cpc |-> "start", rd |-> 0, pos |-> 0, received_data |-> <<>>,
       ret |-> "none", msg |-> <<>>]

\* the load driver starts the operation: connect, and send the first line
PeerConnect(c) ==
  /\ peer[c].kind # "off"
  /\ peerState[c] = "none"
  /\ after[c] # 0 => cl[after[c]].cpc = "returned" /\ hpc[after[c]] = "CLOSED"
  /\ peerState' = [peerState EXCEPT ![c] = "open"]
  /\ req' = [req EXCEPT ![c] = [pending |-> peer[c].sends,
                                words |-> peer[c].words]]
  /\ cl' = [cl EXCEPT ![c].cpc = "connected"]
  /\ UNCHANGED <<srvVars, c2s, c2sLog, s2c, peer, after, downloads>>

GoAhead(c) ==
  \E i \in 1..Len(s2c[c]) :
     s2c[c][i] \in {Text("PROCEED"), Text("READY_FOR_DATA")}

PeerSendStream(c) ==
  /\ peer[c].kind = "raw"
  /\ cl[c].cpc = "connected"
  /\ peerState[c] = "open"
  /\ peer[c].stream # <<>>
  /\ GoAhead(c)
  /\ c2s' = [c2s EXCEPT ![c] = @ \o peer[c].stream]
  /\ c2sLog' = [c2sLog EXCEPT ![c] = @ \o peer[c].stream]
  /\ cl' = [cl EXCEPT ![c].cpc = "streamed"]
  /\ UNCHANGED <<srvVars, req, s2c, peerState, peer, after, downloads>>

PeerClose(c) ==
  /\ peer[c].kind = "raw"
  /\ peerState[c] = "open"
  /\ \E how \in {"fin", "rst"} :
       peerState' = [peerState EXCEPT ![c] = how]
  /\ cl' = [cl EXCEPT ![c].cpc = "returned"]
  /\ UNCHANGED <<srvVars, req, c2s, c2sLog, s2c, peer, after, downloads>>

---------------------------------------------------------------------------
(* client_pool.py *)

\* what the server has sent and the client has not read yet
Unread(c) == SubSeq(s2c[c], cl[c].rd + 1, Len(s2c[c]))

\* the sizes sock.recv(TRANSFER_BLOCK) may return: part of what has arrived,
\* or nothing once the server has closed; otherwise it blocks
RecvSizes(c) ==
  IF Unread(c) = <<>>
  THEN IF hpc[c] = "CLOSED" THEN {0} ELSE {}
  ELSE 1..Min(TRANSFER_BLOCK, Len(Unread(c)))

\* `return ok, message`, leaving the `with socket` block closes the socket
Return(c, k, ok, message) ==
  /\ cl' = [cl EXCEPT ![c].cpc = "returned", ![c].rd = @ + k,
                      ![c].ret = ok, ![c].msg = message]
  /\ peerState' = [peerState EXCEPT ![c] = "fin"]

\* perform_upload_proceed without the comparison at line 30: whatever the
\* reply, the client goes on to send the file
perform_upload_proceed_unchecked(c) ==
  /\ peer[c].kind = "upload"
  /\ cl[c].cpc = "connected"
  /\ \E k \in RecvSizes(c) :
       cl' = [cl EXCEPT ![c].cpc = "sending", ![c].rd = @ + k]
  /\ UNCHANGED <<srvVars, req, c2s, c2sLog, s2c, peerState, peer, after,
                 downloads>>

\* lines 29-31: the reply to the UPLOAD line
perform_upload_proceed(c) ==
  /\ peer[c].kind = "upload"
  /\ cl[c].cpc = "connected"
  /\ \E k \in RecvSizes(c) :
       LET server_response == SubSeq(Unread(c), 1, k)
       IN IF server_response # <<Text("PROCEED")>>
          THEN Return(c, k, "False", server_response)
          ELSE /\ cl' = [cl EXCEPT ![c].cpc = "sending", ![c].rd = @ + k]
               /\ UNCHANGED peerState
  /\ UNCHANGED <<srvVars, req, c2s, c2sLog, s2c, peer, after, downloads>>

\* lines 37-45: one pass of the loop that reads a block, encodes it and
\* sends it; after the last block the sentinel
perform_upload_send(c) ==
  /\ peer[c].kind = "upload"
  /\ cl[c].cpc = "sending"
  /\ LET data_block == SubSeq(peer[c].file, cl[c].pos + 1,
                              Min(cl[c].pos + TRANSFER_BLOCK,
                                  Len(peer[c].file)))
     IN \/ /\ data_block # <<>>
           /\ c2s' = [c2s EXCEPT ![c] = @ \o B64Encode(data_block)]
           /\ c2sLog' = [c2sLog EXCEPT ![c] = @ \o B64Encode(data_block)]
           /\ cl' = [cl EXCEPT ![c].pos = @ + Len(data_block)]
           /\ UNCHANGED peerState
        \/ /\ data_block = <<>>
           /\ c2s' = [c2s EXCEPT ![c] = @ \o EOF_SENTINEL]
           /\ c2sLog' = [c2sLog EXCEPT ![c] = @ \o EOF_SENTINEL]
           /\ cl' = [cl EXCEPT ![c].cpc = "await_result"]
           /\ UNCHANGED peerState
        \/ \* the server has closed: send raises, `except` returns False
           /\ hpc[c] = "CLOSED"
           /\ Return(c, 0, "False", <<>>)
           /\ UNCHANGED <<c2s, c2sLog>>
  /\ UNCHANGED <<srvVars, req, s2c, peer, after, downloads>>

\* lines 46-47: the final reply
perform_upload_result(c) ==
  /\ peer[c].kind = "upload"
  /\ cl[c].cpc = "await_result"
  /\ \E k \in RecvSizes(c) :
       Return(c, k, "True", SubSeq(Unread(c), 1, k))
  /\ UNCHANGED <<srvVars, req, c2s, c2sLog, s2c, peer, after, downloads>>

\* lines 63-78: one pass of the download loop; on the sentinel, decode and
\* save
perform_download_receive(c) ==
  /\ peer[c].kind = "download"
  /\ cl[c].cpc = "connected"
  /\ \E k \in RecvSizes(c) :
       LET data_part == SubSeq(Unread(c), 1, k)
       IN IF Contains(data_part, EOF_SENTINEL)
          THEN LET received_data == cl[c].received_data
                                      \o Replace(data_part, EOF_SENTINEL)
                   decoded_content == B64Decode(received_data)
                   file_name == peer[c].words[2]
               IN IF decoded_content.ok
                  THEN /\ downloads' =
                            [n \in (DOMAIN downloads) \cup {file_name} |->
                               IF n = file_name THEN decoded_content.data
                               ELSE downloads[n]]
                       /\ Return(c, k, "True", <<>>)
                  ELSE /\ Return(c, k, "False", <<>>)
                       /\ UNCHANGED downloads
          ELSE /\ cl' = [cl EXCEPT ![c].received_data = @ \o data_part,
                                   ![c].rd = @ + k]
               /\ UNCHANGED <<peerState, downloads>>
  /\ UNCHANGED <<srvVars, req, c2s, c2sLog, s2c, peer, after>>

---------------------------------------------------------------------------
(* Initial states *)

Seeds == {0, 77, 255}

FileOf(len, seed) == [i \in 1..len |-> (seed + 83 * i) % 256]

\* file contents of every length up to MaxFileLen
Files == {FileOf(len, seed) : len \in 0..MaxFileLen, seed \in Seeds}

SmallFiles == {FileOf(len, 77) : len \in 0..1}

\* a file whose base64 text spells the letters of b'unavailable'
MarkerFile == B64Decode(WORD_UNAVAILABLE \o <<0>>).data

NoFiles == [n \in {} |-> <<>>]

OneFile(n, content) == [m \in {n} |-> content]

Off == [kind |-> "off", sends |-> FALSE, words |-> <<>>, stream |-> <<>>,
        file |-> <<>>]

Raw(words, stream) ==
  [kind |-> "raw", sends |-> TRUE, words |-> words, stream |-> stream,
   file |-> <<>>]

\* a peer that connects and sends nothing
Silent == [kind |-> "raw", sends |-> FALSE, words |-> <<>>, stream |-> <<>>,
           file |-> <<>>]

\* perform_upload(file_name) on a local file with this content
ClientUpload(n, content) ==
  [kind |-> "upload", sends |-> TRUE, words |-> <<"UPLOAD", n>>,
   stream |-> <<>>, file |-> content]

\* perform_download(file_name)
ClientDownload(n) ==
  [kind |-> "download", sends |-> TRUE, words |-> <<"DOWNLOAD", n>>,
   stream |-> <<>>, file |-> <<>>]

\* payloads of raw peers: a well-formed upload in either dialect, base64
\* that does not decode, a payload without its sentinel, nothing at all
RawStreams ==
  {B64Encode(<<77>>) \o EOF_SENTINEL, B64Encode(<<77>>) \o COMPLETE_SENTINEL,
   <<24>> \o EOF_SENTINEL, <<24>> \o COMPLETE_SENTINEL,
   B64Encode(<<77>>), <<>>}

RawScripts ==
  {Silent}
  \cup {Raw(w, <<>>) :
          w \in {<<>>, <<"LIST">>, <<"list">>, <<"UPLOAD">>, <<"DOWNLOAD">>,
                 <<"PING">>, <<"DIRECTORY">>, <<"STORE">>, <<"FETCH">>}}
  \cup {Raw(<<cmd, n>>, <<>>) : cmd \in {"DOWNLOAD", "FETCH"}, n \in Names}
  \cup {Raw(<<cmd, "a">>, st) : cmd \in {"UPLOAD", "STORE"}, st \in RawStreams}

ClientScripts ==
  {ClientUpload("a", f) : f \in SmallFiles}
  \cup {ClientDownload(n) : n \in Names}

\* transfers of the file named "success"
UnopenableScripts ==
  {ClientUpload("success", <<77>>),
   Raw(<<"UPLOAD", "success">>, B64Encode(<<77>>) \o EOF_SENTINEL),
   Raw(<<"STORE", "success">>, B64Encode(<<77>>) \o COMPLETE_SENTINEL),
   Raw(<<"DOWNLOAD", "success">>, <<>>), Raw(<<"FETCH", "success">>, <<>>)}

\* what may run after the first connection is over
FollowUps ==
  {Off, Raw(<<"LIST">>, <<>>), Raw(<<"DIRECTORY">>, <<>>),
   Raw(<<"FETCH", "a">>, <<>>), ClientDownload("a"), Raw(<<"PING">>, <<>>)}

\* the server has just started, no peer has connected
InitRest ==
  /\ variant \in {"process", "thread"}
  /\ worker_count \in 1..MaxWorkers
  /\ completed_operations = 0
  /\ failed_operations = 0
  /\ workq = <<>>
  /\ busy = {}
  /\ hpc = [c \in Conns |-> "IDLE"]
  /\ h = [c \in Conns |-> H0]
  /\ trace = [c \in Conns |-> T0]
  /\ stats_lock = 0
  /\ printed = <<0, 0>>
  /\ req = [c \in Conns |-> [pending |-> FALSE, words |-> <<>>]]
  /\ c2s = [c \in Conns |-> <<>>]
  /\ c2sLog = [c \in Conns |-> <<>>]
  /\ s2c = [c \in Conns |-> <<>>]
  /\ peerState = [c \in Conns |-> "none"]
  /\ cl = [c \in Conns |-> C0]
  /\ downloads = NoFiles

\* one connection of any kind, then follow-ups, one after the other
Init ==
  /\ InitRest
  /\ \/ /\ storage \in {NoFiles, OneFile("a", <<5, 6>>),
                        OneFile("b", MarkerFile)}
        /\ denied = {}
        /\ peer \in {p \in [Conns -> RawScripts \cup ClientScripts
                                      \cup FollowUps] :
                       /\ p[1] \in RawScripts \cup ClientScripts
                       /\ \A c \in Conns \ {1} : p[c] \in FollowUps}
     \/ \* the storage holds a file that the server may not open
        /\ storage = OneFile("success", <<1>>)
        /\ denied = {"success"}
        /\ peer \in {p \in [Conns -> UnopenableScripts \cup FollowUps] :
                       /\ p[1] \in UnopenableScripts
                       /\ \A c \in Conns \ {1} : p[c] \in FollowUps}
  /\ after = [c \in Conns |-> c - 1]

\* a transfer of a file of any length: an upload of the file as "a" (by the
\* client, or by a peer that speaks the thread-pool server's words), then a
\* download of "a", or of "b", which the storage holds from the start
TransferInit ==
  /\ InitRest
  /\ denied = {}
  /\ \E f \in Files :
       /\ storage = OneFile("b", f)
       /\ peer \in {p \in [Conns -> {ClientUpload("a", f),
                                     Raw(<<"STORE", "a">>,
                                         B64Encode(f) \o COMPLETE_SENTINEL),
                                     Off}
                                    \cup {ClientDownload(n) : n \in Names}
                                    \cup {Raw(<<"FETCH", n>>, <<>>) :
                                            n \in Names}] :
                      /\ p[1].words # <<>> /\ p[1].words[1] \in {"UPLOAD", "STORE"}
                      /\ p[2].words # <<>> /\ p[2].words[1] \in {"DOWNLOAD", "FETCH"}
                      /\ \A c \in Conns \ {1, 2} : p[c] = Off}
  /\ after = [c \in Conns |-> c - 1]

\* the name each of the simultaneous uploads stores under
ConnName(c) ==
  CASE c = 1 -> "a"
    [] c = 2 -> "b"
    [] OTHER -> "c"

\* simultaneous connections: uploads of distinct names, listings, downloads
\* (one of them asks for the name the first connection's upload is staged
\* under), and peers that connect and then stall
\* the payload of each of the simultaneous uploads, different for each
ConnFile(c) == <<76 + c>>

ConcScripts(c) ==
  {ClientUpload(ConnName(c), ConnFile(c)),
   Raw(<<"UPLOAD", ConnName(c)>>, B64Encode(ConnFile(c)) \o EOF_SENTINEL),
   Raw(<<"STORE", ConnName(c)>>, B64Encode(ConnFile(c)) \o COMPLETE_SENTINEL),
   Raw(<<"LIST">>, <<>>), Raw(<<"DIRECTORY">>, <<>>),
   ClientDownload("a"), Raw(<<"FETCH", "a">>, <<>>), Silent}
  \cup (IF c = 1 THEN {}
        ELSE {Raw(<<"DOWNLOAD", TempName(1)>>, <<>>)})

ConcInit ==
  /\ InitRest
  /\ denied = {}
  /\ storage = OneFile("a", <<5, 6>>)
  /\ peer \in {p \in [Conns -> UNION {ConcScripts(c) : c \in Conns}] :
                 \A c \in Conns : p[c] \in ConcScripts(c)}
  /\ after = [c \in Conns |-> 0]

Next ==
  \E c \in Conns :
     \/ PeerConnect(c)
     \/ PeerSendStream(c)
     \/ PeerClose(c)
     \/ perform_upload_proceed(c)
     \/ perform_upload_send(c)
     \/ perform_upload_result(c)
     \/ perform_download_receive(c)
     \/ Accept(c)
     \/ manage_connection_request(c)
     \/ manage_connection_receive(c)
     \/ execute_command_start(c)
     \/ execute_command_return(c)
     \/ manage_connection_result(c)
     \/ worker_take(c)
     \/ process_client_request_request(c)
     \/ process_client_request_receive(c)
     \/ process_client_request_commit(c)
     \/ process_client_request_stream(c)
     \/ counter_load(c)
     \/ counter_store(c)

Spec == Init /\ [][Next]_vars

TransferSpec == TransferInit /\ [][Next]_vars

ConcSpec == ConcInit /\ [][Next]_vars

\* an upload and a download in each server's words, a blank line, a peer
\* that stalls
CounterScripts(c) ==
  {ClientUpload(ConnName(c), ConnFile(c)),
   Raw(<<"STORE", ConnName(c)>>, B64Encode(ConnFile(c)) \o COMPLETE_SENTINEL),
   ClientDownload("a"), Raw(<<"FETCH", "a">>, <<>>), Raw(<<>>, <<>>), Silent}

\* simultaneous connections whose handlers come to their counting at once,
\* with the reporter running
CounterInit ==
  /\ InitRest
  /\ denied = {}
  /\ storage = OneFile("a", <<5, 6>>)
  /\ peer \in {p \in [Conns -> UNION {CounterScripts(c) : c \in Conns}] :
                 \A c \in Conns : p[c] \in CounterScripts(c)}
  /\ after = [c \in Conns |-> 0]

\* the reporter changes nothing but what it prints; the other
\* specifications leave it out
CounterNext == Next \/ display_stats

CounterSpec == CounterInit /\ [][CounterNext]_vars

\* what the server does on connection c: its handler and the pool workers
\* that serve it
ServerStep(c) ==
  \/ Accept(c)
  \/ manage_connection_request(c)
  \/ manage_connection_receive(c)
  \/ execute_command_start(c)
  \/ execute_command_return(c)
  \/ manage_connection_result(c)
  \/ worker_take(c)
  \/ process_client_request_request(c)
  \/ process_client_request_receive(c)
  \/ process_client_request_commit(c)
  \/ process_client_request_stream(c)
  \/ counter_load(c)
  \/ counter_store(c)

\* the server's threads and workers keep running; peers owe nothing
FairSpec == Spec /\ \A c \in Conns : WF_vars(ServerStep(c))

---------------------------------------------------------------------------
(* Claims *)

\* C1: in both servers a handler that has reached CLOSED has incremented
\* exactly one of the two counters, exactly once, whatever its exit path;
\* the counters themselves hold exactly these increments.
C1_CountedExactlyOnce ==
  /\ \A c \in Conns :
        hpc[c] = "CLOSED" => trace[c].completed + trace[c].failed = 1
  /\ completed_operations
       = Cardinality({c \in Conns : trace[c].completed = 1})
  /\ failed_operations = Cardinality({c \in Conns : trace[c].failed = 1})

\* C1's case: an upload handler that left through the except clause, after
\* a socket call raised, is closed
C1_Witness ==
  \E c \in Conns :
     /\ hpc[c] = "CLOSED"
     /\ trace[c].raised
     /\ req[c].words # <<>>
     /\ Upper(req[c].words[1]) \in {"UPLOAD", "STORE"}
     /\ Len(req[c].words) = 2

\* C2: once the peer of an upload has closed the connection and everything
\* it sent has been read without a sentinel (every later recv returns b''),
\* the handler eventually leaves the receive loop, counts a failure and
\* reaches CLOSED.
C2_DisconnectIsCounted ==
  \A c \in Conns :
     (hpc[c] = "RECEIVE_CHUNKS" /\ peerState[c] = "fin" /\ c2s[c] = <<>>)
       ~> (hpc[c] = "CLOSED" /\ trace[c].failed = 1)

\* the sentinel the running server looks for
ServerSentinel ==
  IF variant = "process" THEN EOF_SENTINEL ELSE COMPLETE_SENTINEL

EndsWith(s, t) ==
  Len(s) >= Len(t) /\ SubSeq(s, Len(s) - Len(t) + 1, Len(s)) = t

WithoutTail(s, t) == SubSeq(s, 1, Len(s) - Len(t))

\* C3: however the sender's sentinel-terminated stream is cut into reads,
\* the receiver that has read all of it has seen the sentinel and left its
\* loop, and what it goes on to decode is the stream without the sentinel.
\* Receivers: the servers' upload loops and the client's download loop.
C3_SentinelFoundForEverySplit ==
  \A c \in Conns :
     /\ (/\ EndsWith(c2sLog[c], ServerSentinel)
         /\ c2s[c] = <<>>
         /\ ~trace[c].raised)
        => /\ hpc[c] # "RECEIVE_CHUNKS"
           /\ variant = "thread"
                => h[c].received_data
                     = WithoutTail(c2sLog[c], COMPLETE_SENTINEL)
           /\ (variant = "process" /\ hpc[c] \in {"SUBMITTED", "EXECUTING"})
                => storage[TempName(c)]
                     = WithoutTail(c2sLog[c], EOF_SENTINEL)
     /\ (/\ peer[c].kind = "download"
         /\ EndsWith(s2c[c], EOF_SENTINEL)
         /\ cl[c].rd = Len(s2c[c]))
        => /\ cl[c].cpc = "returned"
           /\ cl[c].ret = "True"
                => downloads[peer[c].words[2]]
                     = B64Decode(WithoutTail(s2c[c], EOF_SENTINEL)).data

\* C4: a file of any content and length that the client uploads and then
\* downloads under the same name comes back byte-identical (no socket call
\* of either handler having raised).
C4_UploadThenDownloadIsIdentity ==
  (/\ peer[1].kind = "upload"
   /\ peer[2].kind = "download"
   /\ peer[2].words[2] = peer[1].words[2]
   /\ cl[2].cpc = "returned"
   /\ ~trace[1].raised
   /\ ~trace[2].raised)
  => /\ cl[1].ret = "True"
     /\ cl[2].ret = "True"
     /\ peer[1].words[2] \in DOMAIN downloads
     /\ downloads[peer[1].words[2]] = peer[1].file

\* C5: where a file is encoded block by block (the client's upload, the
\* thread-pool server's download), what has been put on the wire once the
\* sentinel is sent is the encoding of the whole file followed by one
\* sentinel, for every file length.
C5_ChunkedEncodingIsWholeEncoding ==
  \A c \in Conns :
     /\ (peer[c].kind = "upload" /\ cl[c].cpc = "await_result")
        => c2sLog[c] = B64Encode(peer[c].file) \o EOF_SENTINEL
     /\ (/\ variant = "thread"
         /\ h[c].op = "FETCH"
         /\ hpc[c] = "CLOSED"
         /\ trace[c].completed = 1)
        => s2c[c] = B64Encode(storage[h[c].filename]) \o COMPLETE_SENTINEL

\* the first lines of the client's protocol
C6_ClientLine(c) ==
  /\ req[c].words # <<>>
  /\ \/ req[c].words = <<"LIST">>
     \/ /\ Len(req[c].words) = 2
        /\ req[c].words[1] \in {"UPLOAD", "DOWNLOAD"}

\* C6: both servers speak the client's protocol: a first line LIST,
\* UPLOAD <filename> or DOWNLOAD <filename> never gets the unknown-command
\* reply, an UPLOAD is told to go ahead with the token the client waits
\* for (PROCEED), and the sentinel of a download is the client's (__EOF__).
C6_ServersSpeakTheClientsProtocol ==
  \A c \in Conns :
     C6_ClientLine(c)
     => /\ \A i \in 1..Len(s2c[c]) :
              s2c[c][i] \notin {Text("Unknown operation"),
                                Text("Unrecognized command"),
                                Text("READY_FOR_DATA")}
        /\ ~Contains(s2c[c], COMPLETE_SENTINEL)
        /\ (peer[c].kind = "upload" /\ cl[c].cpc = "returned"
              /\ cl[c].ret = "False" /\ ~trace[c].raised)
           => cl[c].msg = <<>>

\* a handler that waits for its peer: for the first line, or for the next
\* part of an upload
C7_WaitsForPeer(d) ==
  \/ hpc[d] = "INIT" /\ ~req[d].pending
  \/ hpc[d] = "RECEIVE_CHUNKS" /\ c2s[d] = <<>>

\* C7: every accepted connection has its own handler that runs
\* independently: whatever the pool size and however many connections there
\* are, an accepted connection whose handler has not started yet, or waits
\* for a pool worker, is never held up by handlers that wait for their own
\* slow peers: a worker is free, or one of the busy workers runs something
\* that finishes without its peer.
C7_HandlersRunIndependently ==
  \A c \in Conns :
     hpc[c] \in {"QUEUED", "SUBMITTED"}
     => \/ Cardinality(busy) < worker_count
        \/ \E d \in busy : ~C7_WaitsForPeer(d)

\* an upload in the words of the running server
C8_Uploader(c) ==
  /\ Len(peer[c].words) = 2
  /\ \/ variant = "process" /\ peer[c].words[1] = "UPLOAD"
     \/ variant = "thread" /\ peer[c].words[1] = "STORE"

\* C8: of simultaneous uploads of distinct names, under every interleaving
\* of the handlers and of the pool's calls, each one ends (the handler that
\* has read the whole stream is past its receive loop) with the success
\* response and one more completed operation, and the stored file holds
\* the payload of its own upload (no socket call having raised).
C8_SimultaneousUploadsAllSucceed ==
  \A c \in Conns :
     C8_Uploader(c)
     => /\ (/\ EndsWith(c2sLog[c], ServerSentinel)
            /\ c2s[c] = <<>>
            /\ ~trace[c].raised)
           => hpc[c] # "RECEIVE_CHUNKS"
        /\ (hpc[c] = "CLOSED" /\ ~trace[c].raised)
           => /\ trace[c].completed = 1
              /\ s2c[c][Len(s2c[c])] = Text("File stored successfully")
              /\ ConnName(c) \in DOMAIN storage
              /\ storage[ConnName(c)] = ConnFile(c)

\* a download, in the words of the running server, of a name that the
\* storage does not hold
C9_MissingDownload(c) ==
  /\ Len(req[c].words) >= 2
  /\ Upper(req[c].words[1])
       = (IF variant = "process" THEN "DOWNLOAD" ELSE "FETCH")
  /\ req[c].words[2] \notin DOMAIN storage

C9_Reply(c) ==
  /\ ~Contains(s2c[c], EOF_SENTINEL)
  /\ ~Contains(s2c[c], COMPLETE_SENTINEL)
  /\ trace[c].completed = 0
  /\ hpc[c] \notin {"RECEIVE_CHUNKS", "COMMIT", "STREAM_CHUNKS"}
  /\ hpc[c] = "CLOSED"
       => /\ trace[c].failed = 1
          /\ failed_operations >= 1
          /\ ~trace[c].raised => s2c[c] = <<Text("File unavailable")>>

\* C9: a download of a name that is not in the storage is answered with
\* 'File unavailable' alone (when the send does not raise) and never with a
\* sentinel; it counts one failure and no completion; no step of its
\* handler changes the storage; and its handler reaches CLOSED.
C9_MissingDownloadIsUnavailable ==
  /\ [](\A c \in Conns : C9_MissingDownload(c) => C9_Reply(c))
  /\ [][\A c \in Conns :
          (C9_MissingDownload(c) /\ hpc'[c] # hpc[c]) => storage' = storage]_vars
  /\ \A c \in Conns :
        (C9_MissingDownload(c) /\ req[c].pending /\ hpc[c] \in {"QUEUED", "INIT"})
          ~> (hpc[c] = "CLOSED")

C9_Witness ==
  \E c \in Conns :
     /\ C9_MissingDownload(c)
     /\ variant = "process"
     /\ hpc[c] = "CLOSED"
     /\ trace[c].failed = 1
     /\ s2c[c] = <<Text("File unavailable")>>

\* a first line whose command the running server does not know, or whose
\* transfer command comes without a filename
C10_NoFilename(c) ==
  /\ Len(req[c].words) = 1
  /\ Upper(req[c].words[1])
       \in (IF variant = "process" THEN {"UPLOAD", "DOWNLOAD"}
            ELSE {"STORE", "FETCH"})

C10_Unknown(c) ==
  /\ req[c].words # <<>>
  /\ Upper(req[c].words[1])
       \notin (IF variant = "process" THEN {"LIST", "UPLOAD", "DOWNLOAD"}
               ELSE {"DIRECTORY", "STORE", "FETCH"})

C10_FixedText(c) ==
  IF variant = "process"
  THEN IF C10_Unknown(c) THEN Text("Unknown operation")
       ELSE Text("Missing filename")
  ELSE IF C10_Unknown(c) THEN Text("Unrecognized command")
       ELSE Text("Filename required")

C10_Reply(c) ==
  /\ hpc[c] \in {"IDLE", "QUEUED", "INIT", "COUNT", "LOCKED", "CLOSED"}
  /\ \A i \in 1..Len(s2c[c]) :
        s2c[c][i] \notin {Text("PROCEED"), Text("READY_FOR_DATA")}
  /\ trace[c].completed = 0
  /\ hpc[c] = "CLOSED"
       => /\ trace[c].failed = 1
          /\ failed_operations >= 1
          /\ ~trace[c].raised => s2c[c] = <<C10_FixedText(c)>>

\* C10: an unknown command, or a transfer command without a filename, is
\* answered with one fixed text that depends on nothing but the case (when
\* the send does not raise) and never with a go-ahead token; it counts one
\* failure; its handler goes from its first line straight to CLOSED,
\* changes nothing in the storage, and does reach CLOSED.
C10_BadFirstLineIsRejected ==
  /\ [](\A c \in Conns : (C10_Unknown(c) \/ C10_NoFilename(c)) => C10_Reply(c))
  /\ [][\A c \in Conns :
          ((C10_Unknown(c) \/ C10_NoFilename(c)) /\ hpc'[c] # hpc[c])
            => storage' = storage]_vars
  /\ \A c \in Conns :
        (/\ C10_Unknown(c) \/ C10_NoFilename(c)
         /\ req[c].pending
         /\ hpc[c] \in {"QUEUED", "INIT"})
          ~> (hpc[c] = "CLOSED")

C10_Witness ==
  \E c, d \in Conns :
     /\ C10_Unknown(c)
     /\ hpc[c] = "CLOSED"
     /\ s2c[c] = <<C10_FixedText(c)>>
     /\ C10_NoFilename(d)
     /\ hpc[d] = "CLOSED"
     /\ s2c[d] = <<C10_FixedText(d)>>
     /\ storage # NoFiles

\* a listing request, in the words of the running server
C11_IsList(c) ==
  /\ req[c].words # <<>>
  /\ Upper(req[c].words[1])
       = (IF variant = "process" THEN "LIST" ELSE "DIRECTORY")

\* the reply is the empty marker for an empty directory, and otherwise
\* the directory's names, each once, with a newline between two names; it
\* holds the name of every upload that succeeded before
C11_Listing(c) ==
  /\ DOMAIN storage = {}
       => s2c[c] = <<IF variant = "process" THEN Text("Empty directory")
                     ELSE Text("Directory empty")>>
  /\ DOMAIN storage # {}
       => /\ Len(s2c[c]) = 2 * Cardinality(DOMAIN storage) - 1
          /\ \A i \in 1..Len(s2c[c]) :
                i % 2 = 0 => s2c[c][i] = Text("\n")
          /\ \A n \in DOMAIN storage :
                \E i \in 1..Len(s2c[c]) : i % 2 = 1 /\ s2c[c][i] = NameSym(n)
  /\ \A d \in 1..(c - 1) :
        (h[d].op \in {"UPLOAD", "STORE"} /\ trace[d].completed = 1)
          => \E i \in 1..Len(s2c[c]) : s2c[c][i] = NameSym(h[d].filename)

\* C11 as stated: a listing answers with the empty marker or with the
\* newline-joined names, among them every name uploaded successfully
\* before, and always counts one completed operation.
C11_ListAlwaysCompleted ==
  \A c \in Conns :
     (C11_IsList(c) /\ hpc[c] = "CLOSED")
       => /\ C11_Listing(c)
          /\ trace[c].completed = 1

\* C11, amended: the same of every listing whose reply is sent without the
\* socket raising; a listing whose socket raises counts one failed
\* operation instead.
C11_ListCompletedUnlessSocketRaises ==
  \A c \in Conns :
     (C11_IsList(c) /\ hpc[c] = "CLOSED")
       => IF trace[c].raised
          THEN trace[c].failed = 1 /\ trace[c].completed = 0
          ELSE /\ C11_Listing(c)
               /\ trace[c].completed = 1
               /\ trace[c].failed = 0

C11_Witness ==
  \E c \in Conns :
     /\ C11_IsList(c)
     /\ hpc[c] = "CLOSED"
     /\ ~trace[c].raised
     /\ \E d \in 1..(c - 1) :
           h[d].op \in {"UPLOAD", "STORE"} /\ trace[d].completed = 1
     /\ Cardinality(DOMAIN storage) = 2

\* C12: in the process-pool server the staging file of an upload exists
\* only while the upload is in flight: once the upload's handler is CLOSED
\* (after a commit, a decode or persist error, a socket error or a timeout)
\* its staging file is no longer in the storage directory.
C12_StagingFileGoneWhenClosed ==
  \A c \in Conns :
     (variant = "process" /\ h[c].op = "UPLOAD" /\ hpc[c] = "CLOSED")
       => TempName(c) \notin DOMAIN storage

\* C13: every increment of a counter is made while its handler holds the
\* one lock, so whatever the interleaving of the handlers no increment is
\* lost: each counter equals the number of increments made to it, and the
\* two together the number of handlers that have counted.  The reporter
\* takes the same lock, prints the pair as it is, and changes neither
\* counter.
C13_IncrementsUnderTheLock ==
  /\ [](/\ \A c \in Conns : hpc[c] = "LOCKED" => stats_lock = c
        /\ completed_operations
             = Cardinality({c \in Conns : trace[c].completed = 1})
        /\ failed_operations
             = Cardinality({c \in Conns : trace[c].failed = 1})
        /\ completed_operations + failed_operations
             = Cardinality({c \in Conns : hpc[c] = "CLOSED"}))
  /\ [][printed' # printed
          => /\ stats_lock = 0
             /\ printed' = <<completed_operations, failed_operations>>
             /\ completed_operations' = completed_operations
             /\ failed_operations' = failed_operations
             /\ stats_lock' = 0]_vars

C13_Witness ==
  \E c, d \in Conns :
     /\ c # d
     /\ hpc[c] = "LOCKED"
     /\ hpc[d] = "COUNT"
     /\ trace[c].which = trace[d].which
     /\ stats_lock = c

\* C14: no failure inside one connection's handler takes the accept loop
\* or the pool away from the connections that follow: a connection that
\* has connected is accepted, and an accepted connection that waits for a
\* worker finds one free, or one whose handler still has a step to take
\* (and so comes to its end and gives the worker back).
C14_FailuresLeaveTheServerServing ==
  \A c \in Conns :
     /\ (hpc[c] = "IDLE" /\ peerState[c] # "none") => ENABLED Accept(c)
     /\ hpc[c] \in {"QUEUED", "SUBMITTED"}
          => \/ Cardinality(busy) < worker_count
             \/ \E d \in busy : ENABLED <<ServerStep(d)>>_vars

\* the server's part before the payload: the go-ahead token is sent only
\* to an upload line with a filename, it is the first thing sent, and no
\* payload symbol is read before it
C15_TokenFirst(c) ==
  /\ GoAhead(c)
       => /\ Len(req[c].words) >= 2
          /\ Upper(req[c].words[1]) \in {"UPLOAD", "STORE"}
          /\ s2c[c][1] \in {Text("PROCEED"), Text("READY_FOR_DATA")}
  /\ Len(c2s[c]) < Len(c2sLog[c]) => GoAhead(c)

\* the client's part: payload and sentinel only after a reply that is
\* exactly the token
C15_ClientWaits(c) ==
  (peer[c].kind = "upload" /\ c2sLog[c] # <<>>)
    => /\ s2c[c] # <<>>
       /\ s2c[c][1] = Text("PROCEED")
       /\ cl[c].rd >= 1

\* the texts that answer a received upload
C15_ResultTexts ==
  {Text("File stored successfully"), Text("Storage error: "),
   Text("Operation failed: "), Text("Temp file missing: ")}

\* C15 as stated: token before payload and only with a filename; the
\* client sends only after exactly the token; and whatever text follows
\* the token is sent only after the sentinel has been seen.
C15_HandshakeOrdered ==
  \A c \in Conns :
     /\ C15_TokenFirst(c)
     /\ C15_ClientWaits(c)
     /\ (GoAhead(c) /\ Len(s2c[c]) >= 2)
          => Contains(c2sLog[c], ServerSentinel)

\* C15, amended: the same, except that the last part holds of the text
\* that answers the received upload (success, or the error of the decode
\* or the write); the error text of a receive that raised (timeout,
\* reset) is sent without the sentinel having been seen.
C15_HandshakeOrderedButForSocketErrors ==
  \A c \in Conns :
     /\ C15_TokenFirst(c)
     /\ C15_ClientWaits(c)
     /\ (GoAhead(c) /\ Len(s2c[c]) >= 2)
          => \/ /\ s2c[c][2] \in C15_ResultTexts
                /\ Contains(c2sLog[c], ServerSentinel)
                /\ hpc[c] \notin {"INIT", "RECEIVE_CHUNKS"}
             \/ /\ s2c[c][2] = Text("Error: ")
                /\ trace[c].raised

C15_Witness ==
  \E c \in Conns :
     /\ peer[c].kind = "upload"
     /\ cl[c].cpc = "returned"
     /\ s2c[c] = <<Text("PROCEED"), Text("File stored successfully")>>
     /\ Contains(c2sLog[c], EOF_SENTINEL)

\* the names of staging files
C16_StagingNames == {TempName(c) : c \in Conns}

\* C16: only files that a committed store created are listed or
\* retrieved: while uploads are in flight in other handlers, no reply to a
\* listing holds the name of a staging file, and no download answers with
\* the contents of one.
C16_StagingFilesAreInvisible ==
  \A c \in Conns :
     /\ C11_IsList(c)
          => \A i \in 1..Len(s2c[c]) :
                \A n \in C16_StagingNames : s2c[c][i] # NameSym(n)
     /\ (/\ Len(req[c].words) >= 2
         /\ Upper(req[c].words[1]) \in {"DOWNLOAD", "FETCH"}
         /\ req[c].words[2] \in C16_StagingNames)
          => /\ ~Contains(s2c[c], EOF_SENTINEL)
             /\ ~Contains(s2c[c], COMPLETE_SENTINEL)

\* the processor's answers to STORE_FILE that say the store failed
C17_ErrorText(response) ==
  /\ response # <<>>
  /\ response[1] \in {Text("Temp file missing: "), Text("Operation failed: ")}

\* C17: in the process-pool server an upload counts as completed exactly
\* when the processor returned b'File stored successfully'; whatever the
\* filename, an error text of the processor counts as failed.
C17_UploadCountedByResult ==
  \A c \in Conns :
     (/\ variant = "process"
      /\ h[c].op = "UPLOAD"
      /\ hpc[c] = "CLOSED"
      /\ ~trace[c].raised)
       => /\ trace[c].completed = 1
               <=> h[c].response = <<Text("File stored successfully")>>
          /\ C17_ErrorText(h[c].response) => trace[c].failed = 1

\* C18: in the process-pool server a download counts as completed exactly
\* when the response sent is the file's encoding followed by the sentinel:
\* the download of an existing file counts as completed whatever its
\* content, and a response without the sentinel counts as failed.
C18_DownloadCountedByResult ==
  \A c \in Conns :
     (/\ variant = "process"
      /\ h[c].op = "DOWNLOAD"
      /\ hpc[c] = "CLOSED"
      /\ ~trace[c].raised)
       => /\ trace[c].completed = 1 <=> EndsWith(h[c].response, EOF_SENTINEL)
          /\ trace[c].failed = 1 <=> ~EndsWith(h[c].response, EOF_SENTINEL)
          /\ (h[c].filename \in DOMAIN storage /\ h[c].filename \notin denied)
               => /\ h[c].response
                       = B64Encode(storage[h[c].filename]) \o EOF_SENTINEL
                  /\ trace[c].completed = 1


\* a download client inside its receive loop with nothing left to read from
\* a connection the server has closed
C19_ServerGone(c) ==
  /\ peer[c].kind = "download"
  /\ cl[c].cpc = "connected"
  /\ hpc[c] = "CLOSED"
  /\ Unread(c) = <<>>

\* C19: perform_download terminates for every server reply: once the server
\* has closed the connection and everything it sent has been read, the next
\* pass of the receive loop leaves the loop (the client can still move on),
\* and a download that returned True had read the sentinel.
C19_DownloadTerminates ==
  \A c \in Conns :
     /\ C19_ServerGone(c) => ENABLED <<perform_download_receive(c)>>_vars
     /\ (peer[c].kind = "download" /\ cl[c].ret = "True")
          => Contains(SubSeq(s2c[c], 1, cl[c].rd), EOF_SENTINEL)


\* C20: perform_upload returns True only for the server's success marker:
\* an upload that returned True had b'File stored successfully' as the final
\* reply, and once its handler has closed, the server counted that
\* connection as completed and not as failed.
C20_UploadSuccessIsTheServers ==
  \A c \in Conns :
     (peer[c].kind = "upload" /\ cl[c].ret = "True")
       => /\ cl[c].msg = <<Text("File stored successfully")>>
          /\ hpc[c] = "CLOSED"
               => (trace[c].completed = 1 /\ trace[c].failed = 0)

=============================================================================
